---- MODULE Spec2Model ----
(***************************************************************************)
(* Model of the aigent command line tool:                                  *)
(*   - start()              (src/agent/cli/start.py): merge of the CLI     *)
(*     options with the configuration file, side effects, validation and   *)
(*     the call of the generation agent;                                   *)
(*   - scaffold_playwright() / scaffold_cypress() (src/agent/scaffold.py); *)
(*   - check_for_node/npm/playwright/cypress()   (src/agent/scaffold.py).  *)
(* Each function is a sequential program; pc is the position in it.        *)
(***************************************************************************)
EXTENDS Integers, Sequences, FiniteSets, TLC

VARIABLES
    pc,          \* position in the running function
    cli,         \* start(): the parameters typer passes
    config,      \* start(): the mapping returned by read_config(), then merged
    fileConfig,  \* start(): the mapping as read_config() returned it (never written)
    environ,     \* start(): os.environ entries LOG_LEVEL and HEADLESS
    loggerLevel, \* start(): level of agent.logging.logger
    calls,       \* start(): external calls made so far, in order
    errItem,     \* start(): the item named in the error message, if any
    sc,          \* scaffold_*(): parameters and environment of the call
    testDir,     \* scaffold_*(): what the path test_dir currently is
    prior,       \* scaffold_*(): entries of test_dir that were there before the call
    fresh,       \* scaffold_*(): entries of test_dir created during the call
    written,     \* scaffold_*(): files the scaffolder itself wrote (open(..., "w"))
    events,      \* scaffold_*(): steps performed so far, in order
    probe,       \* check_for_*(): the function and the outcome of its command
    result       \* check_for_*(): what the function returned or raised

vars == <<pc, cli, config, fileConfig, environ, loggerLevel, calls, errItem,
          sc, testDir, prior, fresh, written, events, probe, result>>

startVars == <<cli, config, fileConfig, environ, loggerLevel, calls, errItem>>
scaffoldVars == <<sc, testDir, prior, fresh, written, events>>
probeVars == <<probe, result>>

(***************************************************************************)
(* Python values: a type tag and the text str() gives.                     *)
(***************************************************************************)
None == [t |-> "NoneType", v |-> "None"]
True == [t |-> "bool", v |-> "True"]
False == [t |-> "bool", v |-> "False"]
Str(s) == [t |-> "str", v |-> s]

\* bool(x): the truth value Python's `if x:` tests
Truthy(x) ==
    CASE x.t = "NoneType" -> FALSE
      [] x.t = "bool" -> x.v = "True"
      [] OTHER -> x.v # ""

\* str(x)
PyStr(x) == x.v

\* str.lower() on the texts that occur in the model
Lower(s) ==
    CASE s = "True" -> "true"
      [] s = "False" -> "false"
      [] s = "TRUE" -> "true"
      [] s = "DEBUG" -> "debug"
      [] s = "Debug" -> "debug"
      [] s = "INFO" -> "info"
      [] OTHER -> s

(***************************************************************************)
(* start(): inputs                                                         *)
(***************************************************************************)
CliPrompts == {None, Str(""), Str("check login flow")}
CliUrls == {None, Str("http://cli.example")}
CliLanguages == {Str(""), Str("python"), Str("typescript")}
CliFrameworks == {Str("playwright"), Str("cypress")}
PyBools == {False, True}

DefaultLanguage == Str("python")
DefaultFramework == Str("playwright")

CliArgs ==
    [prompt : CliPrompts, url : CliUrls, clean : PyBools, debug : PyBools,
     headless : PyBools, language : CliLanguages, framework : CliFrameworks]

FilePrompts == {None, Str(""), Str("file prompt")}
FileUrls == {None, Str("http://example.com")}
FileLanguages == {Str("python"), Str("javascript")}
FileFrameworks == {Str("cypress")}
FileHeadless == {False, True}
FileLogLevels == {Str("INFO"), Str("DEBUG")}
FileClean == {False, Str("true")}

FileConfigs ==
    [agent : [prompt : FilePrompts, url : FileUrls,
              language : FileLanguages, framework : FileFrameworks],
     config : [headless : FileHeadless, log_level : FileLogLevels, clean : FileClean]]

Unset == "<unset>"

\* one external call: the shell command of os.popen, or the agent
ShellCall(cmd) == [kind |-> "shell", a1 |-> cmd, a2 |-> ""]
AgentCall(p, u) == [kind |-> "agent", a1 |-> p.v, a2 |-> u.v]
RmCommand == "rm -rf tests/*"

(***************************************************************************)
(* start(): lines 49-63, the CLI arguments written over the file's values  *)
(***************************************************************************)
OverridePromptMut(c, cfg) == cfg

OverridePrompt(c, cfg) ==
    IF c.prompt # None THEN [cfg EXCEPT !.agent.prompt = c.prompt] ELSE cfg

OverrideUrl(c, cfg) ==
    IF c.url # None THEN [cfg EXCEPT !.agent.url = c.url] ELSE cfg

OverrideFlagsMut(c, cfg) ==
    [cfg EXCEPT !.config.headless = c.headless,
                !.config.log_level = IF Truthy(c.debug) THEN Str("DEBUG") ELSE Str("INFO"),
                !.config.clean = c.clean]

OverrideFlags(c, cfg) ==
    LET h == IF Truthy(c.headless) THEN [cfg EXCEPT !.config.headless = c.headless] ELSE cfg
        d == IF Truthy(c.debug) THEN [h EXCEPT !.config.log_level = Str("DEBUG")] ELSE h
    IN  IF Truthy(c.clean) THEN [d EXCEPT !.config.clean = c.clean] ELSE d

OverrideLanguage(c, cfg) ==
    IF Truthy(c.language) THEN [cfg EXCEPT !.agent.language = c.language] ELSE cfg

OverrideFramework(c, cfg) ==
    IF Truthy(c.framework) THEN [cfg EXCEPT !.agent.framework = c.framework] ELSE cfg

Merge(c, cfg) ==
    OverrideFramework(c, OverrideLanguage(c, OverrideFlags(c, OverrideUrl(c, OverridePrompt(c, cfg)))))

\* lines 66, 70, 73: str(value).lower() == text
IsText(x, text) == Lower(PyStr(x)) = text

RequiredItemsMut == <<"url">>

\* lines 78-79: the required items, in the order they are tested
RequiredItems == <<"url", "prompt">>

MissingItemsMut(cfg) == << >>

MissingItems(cfg) ==
    SelectSeq(RequiredItems, LAMBDA item : cfg.agent[item] = None)

IdleStart ==
    /\ cli = [prompt |-> None, url |-> None, clean |-> False, debug |-> False,
              headless |-> False, language |-> DefaultLanguage,
              framework |-> DefaultFramework]
    /\ fileConfig = [agent |-> [prompt |-> None, url |-> None,
                                language |-> DefaultLanguage,
                                framework |-> DefaultFramework],
                     config |-> [headless |-> False, log_level |-> Str("INFO"),
                                 clean |-> False]]
    /\ config = fileConfig
    /\ environ = [LOG_LEVEL |-> Unset, HEADLESS |-> Unset]
    /\ loggerLevel = "INFO"
    /\ calls = << >>
    /\ errItem = Unset

IdleScaffold ==
    /\ sc = [fn |-> "none", language |-> "python", clean |-> FALSE,
             locked |-> {}, npm |-> TRUE]
    /\ testDir = "absent"
    /\ prior = {}
    /\ fresh = {}
    /\ written = {}
    /\ events = << >>

IdleProbe ==
    /\ probe = [fn |-> "none", outcome |-> "ok", out |-> << >>]
    /\ result = [kind |-> "none", t |-> "", v |-> << >>]

\* start() is entered: typer has parsed the options, line 47 has read the file
InitStart ==
    /\ pc = "merge"
    /\ cli \in CliArgs
    /\ fileConfig \in FileConfigs
    /\ config = fileConfig
    /\ environ = [LOG_LEVEL |-> Unset, HEADLESS |-> Unset]
    /\ loggerLevel = "INFO"
    /\ calls = << >>
    /\ errItem = Unset
    /\ IdleScaffold
    /\ IdleProbe

\* lines 49-63
StartMerge ==
    /\ pc = "merge"
    /\ config' = Merge(cli, config)
    /\ pc' = "log_level"
    /\ UNCHANGED <<cli, fileConfig, environ, loggerLevel, calls, errItem>>
    /\ UNCHANGED <<scaffoldVars, probeVars>>

\* lines 66-68
StartLogLevel ==
    /\ pc = "log_level"
    /\ IF IsText(config.config.log_level, "debug")
       THEN /\ loggerLevel' = "DEBUG"
            /\ environ' = [environ EXCEPT !.LOG_LEVEL = "DEBUG"]
       ELSE UNCHANGED <<loggerLevel, environ>>
    /\ pc' = "headless"
    /\ UNCHANGED <<cli, fileConfig, config, calls, errItem>>
    /\ UNCHANGED <<scaffoldVars, probeVars>>

\* lines 70-71
StartHeadless ==
    /\ pc = "headless"
    /\ IF IsText(config.config.headless, "true")
       THEN environ' = [environ EXCEPT !.HEADLESS = "true"]
       ELSE UNCHANGED environ
    /\ pc' = "clean"
    /\ UNCHANGED <<cli, fileConfig, config, loggerLevel, calls, errItem>>
    /\ UNCHANGED <<scaffoldVars, probeVars>>

\* lines 73-75
StartClean ==
    /\ pc = "clean"
    /\ IF IsText(config.config.clean, "true")
       THEN calls' = Append(calls, ShellCall(RmCommand))
       ELSE UNCHANGED calls
    /\ pc' = "validate"
    /\ UNCHANGED <<cli, fileConfig, config, environ, loggerLevel, errItem>>
    /\ UNCHANGED <<scaffoldVars, probeVars>>

\* lines 77-83: the first missing item is reported and typer.Exit raised
StartValidate ==
    /\ pc = "validate"
    /\ IF MissingItems(config) # << >>
       THEN /\ errItem' = Head(MissingItems(config))
            /\ pc' = "exit"
       ELSE /\ pc' = "agent"
            /\ UNCHANGED errItem
    /\ UNCHANGED <<cli, fileConfig, config, environ, loggerLevel, calls>>
    /\ UNCHANGED <<scaffoldVars, probeVars>>

\* lines 85-89
StartAgent ==
    /\ pc = "agent"
    /\ calls' = Append(calls, AgentCall(config.agent.prompt, config.agent.url))
    /\ pc' = "done"
    /\ UNCHANGED <<cli, fileConfig, config, environ, loggerLevel, errItem>>
    /\ UNCHANGED <<scaffoldVars, probeVars>>

NextStart ==
    \/ StartMerge
    \/ StartLogLevel
    \/ StartHeadless
    \/ StartClean
    \/ StartValidate
    \/ StartAgent

SpecStart == InitStart /\ [][NextStart]_vars

(***************************************************************************)
(* scaffold_playwright() and scaffold_cypress(): inputs                    *)
(*                                                                         *)
(* test_dir is "absent" (its parent exists), "noparent" (its parent is     *)
(* missing too), "file" (the path names a regular file) or "dir".  A       *)
(* directory holds entries; those of sc.locked are sub-directories that    *)
(* cannot be removed (shutil.rmtree reports an error for them).            *)
(***************************************************************************)
MaxPrior == 2

OldNames == <<"package.json", "reports", "test_login.py", "notes.txt", "old.spec.ts">>
PriorNames == {OldNames[i] : i \in 1..MaxPrior}

ScaffoldFns == {"scaffold_playwright", "scaffold_cypress"}
Languages == {"python", "typescript", "javascript", "ruby"}

CypressFileNames == {"package.json", ".gitignore", "cypress.config.ts",
                     "tsconfig.json", "cypress.config.js"}

Step(op, arg) == [op |-> op, arg |-> arg]

InitScaffold ==
    /\ pc = "sc_clean"
    /\ \E fn \in ScaffoldFns, lang \in Languages, cl \in BOOLEAN, np \in BOOLEAN,
          kind \in {"absent", "noparent", "file", "dir"} :
          \E pr \in SUBSET PriorNames :
             \E lk \in SUBSET (pr \ CypressFileNames) :
                /\ kind # "dir" => pr = {}
                /\ sc = [fn |-> fn, language |-> lang, clean |-> cl,
                         locked |-> lk, npm |-> np]
                /\ testDir = kind
                /\ prior = pr
    /\ fresh = {}
    /\ written = {}
    /\ events = << >>
    /\ IdleStart
    /\ IdleProbe

(***************************************************************************)
(* delete_entire_dir(), lines 8-14: shutil.rmtree(dir, ignore_errors=True) *)
(***************************************************************************)
RmtreeLeavesMut(entries, locked) == entries

\* the entries that are still there after rmtree
RmtreeLeaves(entries, locked) == entries \cap locked

\* the path after rmtree: the directory itself goes only when it got empty
RmtreePath(kind, entries, locked) ==
    IF kind = "dir" /\ RmtreeLeaves(entries, locked) = {} THEN "absent" ELSE kind

\* lines 95-97 and 182-184
ScaffoldClean ==
    /\ pc = "sc_clean"
    /\ IF sc.clean
       THEN /\ prior' = RmtreeLeaves(prior, sc.locked)
            /\ testDir' = RmtreePath(testDir, prior, sc.locked)
            /\ events' = Append(events, Step("rmtree", "test_dir"))
       ELSE UNCHANGED <<prior, testDir, events>>
    /\ pc' = "sc_mkdir"
    /\ UNCHANGED <<sc, fresh, written>>
    /\ UNCHANGED <<startVars, probeVars>>

\* lines 99-100 and 186-187: test_dir.mkdir(exist_ok=True) raises
\* FileNotFoundError without the parent and FileExistsError on a file
ScaffoldMkdir ==
    /\ pc = "sc_mkdir"
    /\ events' = Append(events, Step("mkdir", "test_dir"))
    /\ IF testDir \in {"absent", "dir"}
       THEN /\ testDir' = "dir"
            /\ pc' = "sc_language"
       ELSE /\ pc' = "sc_raised"
            /\ UNCHANGED testDir
    /\ UNCHANGED <<sc, prior, fresh, written>>
    /\ UNCHANGED <<startVars, probeVars>>

NothingToDoMut(language) == FALSE

\* lines 102-104 and 189-191
NothingToDo(language) == language = "python"

AfterLanguageMut(fn, language) ==
    IF NothingToDo(language) THEN "sc_done"
    ELSE IF fn = "scaffold_playwright" THEN "pw_uuid" ELSE "cy_install"

\* where lines 102-106 and 189-195 go on
AfterLanguage(fn, language) ==
    IF NothingToDo(language) THEN "sc_done"
    ELSE IF fn = "scaffold_playwright" THEN "pw_init" ELSE "cy_package"

ScaffoldLanguage ==
    /\ pc = "sc_language"
    /\ pc' = AfterLanguage(sc.fn, sc.language)
    /\ UNCHANGED scaffoldVars
    /\ UNCHANGED <<startVars, probeVars>>

\* subprocess.run(cmd, cwd=test_dir) without check=True: a failing command
\* returns, a command that cannot be launched raises (OSError)
NpmOutcomes(present) == IF present THEN {"ok", "nonzero"} ELSE {"absent"}

\* line 108
PlaywrightLang(language) == IF language = "typescript" THEN "Typescript" ELSE "js"

\* what a successful command leaves in test_dir
NpmCreates(cmd) ==
    CASE cmd = "npm init playwright" -> {"playwright.config", "node_modules"}
      [] cmd = "npm install uuid --save-dev" -> {"node_modules", "package-lock.json"}
      [] OTHER -> {"node_modules", "package-lock.json"}

RunNpm(cmd, arg, next) ==
    /\ events' = Append(events, Step(cmd, arg))
    /\ \E o \in NpmOutcomes(sc.npm) :
          /\ fresh' = (IF o = "ok" THEN fresh \cup (NpmCreates(cmd) \ prior) ELSE fresh)
          /\ pc' = (IF o = "absent" THEN "sc_raised" ELSE next)
    /\ UNCHANGED <<sc, testDir, prior, written>>
    /\ UNCHANGED <<startVars, probeVars>>

\* lines 106-126
PlaywrightInit ==
    /\ pc = "pw_init"
    /\ RunNpm("npm init playwright", PlaywrightLang(sc.language), "pw_uuid")

\* lines 128-132
PlaywrightInstallUuid ==
    /\ pc = "pw_uuid"
    /\ RunNpm("npm install uuid --save-dev", "", "sc_done")

WritesAtMut(p, language) ==
    CASE p = "cy_config_ts" -> language = "typescript"
      [] p = "cy_tsconfig" -> TRUE
      [] p = "cy_config_js" -> language = "javascript"
      [] OTHER -> TRUE

\* lines 226 and 255: whether the write at position p is performed
WritesAt(p, language) ==
    CASE p = "cy_config_ts" -> language = "typescript"
      [] p = "cy_tsconfig" -> language = "typescript"
      [] p = "cy_config_js" -> language = "javascript"
      [] OTHER -> TRUE

\* with open(test_dir / name, "w") as f: f.write(...)
WriteFile(p, name, next) ==
    /\ IF WritesAt(p, sc.language)
       THEN /\ written' = written \cup {name}
            /\ fresh' = fresh \cup {name}
            /\ prior' = prior \ {name}
            /\ events' = Append(events, Step("write", name))
       ELSE UNCHANGED <<written, fresh, prior, events>>
    /\ pc' = next
    /\ UNCHANGED <<sc, testDir>>
    /\ UNCHANGED <<startVars, probeVars>>

\* lines 195-214
CypressWritePackageJson ==
    /\ pc = "cy_package"
    /\ WriteFile("cy_package", "package.json", "cy_gitignore")

\* lines 216-224
CypressWriteGitignore ==
    /\ pc = "cy_gitignore"
    /\ WriteFile("cy_gitignore", ".gitignore", "cy_config_ts")

\* lines 226-239
CypressWriteConfigTs ==
    /\ pc = "cy_config_ts"
    /\ WriteFile("cy_config_ts", "cypress.config.ts", "cy_tsconfig")

\* lines 241-253
CypressWriteTsconfig ==
    /\ pc = "cy_tsconfig"
    /\ WriteFile("cy_tsconfig", "tsconfig.json", "cy_config_js")

\* lines 255-265
CypressWriteConfigJs ==
    /\ pc = "cy_config_js"
    /\ WriteFile("cy_config_js", "cypress.config.js", "cy_install")

\* lines 267-271
CypressInstall ==
    /\ pc = "cy_install"
    /\ RunNpm("npm install", "", "sc_done")

NextScaffold ==
    \/ ScaffoldClean
    \/ ScaffoldMkdir
    \/ ScaffoldLanguage
    \/ PlaywrightInit
    \/ PlaywrightInstallUuid
    \/ CypressWritePackageJson
    \/ CypressWriteGitignore
    \/ CypressWriteConfigTs
    \/ CypressWriteTsconfig
    \/ CypressWriteConfigJs
    \/ CypressInstall

SpecScaffold == InitScaffold /\ [][NextScaffold]_vars

(***************************************************************************)
(* check_for_node(), check_for_npm(), check_for_playwright() and           *)
(* check_for_cypress(): subprocess.check_output([tool, version option])    *)
(* returns the bytes the tool printed, raises CalledProcessError on a      *)
(* non-zero exit and OSError when the tool cannot be launched.             *)
(***************************************************************************)
MaxOut == 3

\* the ASCII bytes of "v", "1", " " and "\n"
OutBytes == {118, 49, 32, 10}
Whitespace == {" ", "\n", "\t", "\r"}

ProbeFns == {"check_for_node", "check_for_npm", "check_for_playwright", "check_for_cypress"}
Outcomes == {"ok", "CalledProcessError", "OSError"}

RECURSIVE SeqsUpTo(_)
SeqsUpTo(n) ==
    IF n = 0 THEN {<< >>}
    ELSE LET shorter == SeqsUpTo(n - 1)
         IN  shorter \cup {Append(q, b) : q \in {r \in shorter : Len(r) = n - 1}, b \in OutBytes}

\* bytes.decode(): one character per ASCII byte
DecodeByte(b) ==
    CASE b = 118 -> "v"
      [] b = 49 -> "1"
      [] b = 46 -> "."
      [] b = 32 -> " "
      [] b = 10 -> "\n"
      [] OTHER -> "?"

Decode(bytes) == [i \in 1..Len(bytes) |-> DecodeByte(bytes[i])]

\* str.strip(): leading and trailing white space removed
RECURSIVE LStrip(_)
LStrip(str) ==
    IF str # << >> /\ Head(str) \in Whitespace THEN LStrip(Tail(str)) ELSE str

RECURSIVE RStrip(_)
RStrip(str) ==
    IF str # << >> /\ str[Len(str)] \in Whitespace
    THEN RStrip(SubSeq(str, 1, Len(str) - 1)) ELSE str

Strip(str) == RStrip(LStrip(str))

Returned(t, v) == [kind |-> "returned", t |-> t, v |-> v]
Raised(exc) == [kind |-> "raised", t |-> exc, v |-> << >>]

CaughtMut(fn, exc) ==
    IF fn = "check_for_node" THEN TRUE ELSE exc = "CalledProcessError"

\* lines 26, 42-45, 57-60, 72-75: the except clauses of each function
Caught(fn, exc) ==
    IF fn = "check_for_node" THEN TRUE ELSE exc \in {"CalledProcessError", "OSError"}

\* what the except clause does: lines 27-30, and 43, 45, 58, 60, 73, 75
Handler(fn) ==
    IF fn = "check_for_node" THEN Raised("typer.Exit") ELSE Returned("bool", << >>)

\* the whole try statement of a check_for_* function
CheckResult(fn, outcome, out) ==
    IF outcome = "ok" THEN Returned("str", Strip(Decode(out)))
    ELSE IF Caught(fn, outcome) THEN Handler(fn)
    ELSE Raised(outcome)

InitProbe ==
    /\ pc = "probe"
    /\ \E fn \in ProbeFns, o \in Outcomes, bytes \in SeqsUpTo(MaxOut) :
          /\ o # "ok" => bytes = << >>
          /\ probe = [fn |-> fn, outcome |-> o, out |-> bytes]
    /\ result = [kind |-> "none", t |-> "", v |-> << >>]
    /\ IdleStart
    /\ IdleScaffold

CheckFor(fn) ==
    /\ result' = CheckResult(fn, probe.outcome, probe.out)
    /\ pc' = "probe_done"
    /\ UNCHANGED probe
    /\ UNCHANGED <<startVars, scaffoldVars>>

\* lines 17-30
check_for_node ==
    /\ pc = "probe"
    /\ probe.fn = "check_for_node"
    /\ CheckFor("check_for_node")

\* lines 33-45
check_for_npm ==
    /\ pc = "probe"
    /\ probe.fn = "check_for_npm"
    /\ CheckFor("check_for_npm")

\* lines 48-60
check_for_playwright ==
    /\ pc = "probe"
    /\ probe.fn = "check_for_playwright"
    /\ CheckFor("check_for_playwright")

\* lines 63-75
check_for_cypress ==
    /\ pc = "probe"
    /\ probe.fn = "check_for_cypress"
    /\ CheckFor("check_for_cypress")

NextProbe ==
    \/ check_for_node
    \/ check_for_npm
    \/ check_for_playwright
    \/ check_for_cypress

SpecProbe == InitProbe /\ [][NextProbe]_vars

(***************************************************************************)
(* Properties of start()                                                   *)
(***************************************************************************)
AgentInvoked == \E i \in 1..Len(calls) : calls[i].kind = "agent"
ShellInvoked == \E i \in 1..Len(calls) : calls[i].kind = "shell"
Merged == pc \in {"log_level", "headless", "clean", "validate", "agent", "exit", "done"}
PastLogLevel == pc \in {"headless", "clean", "validate", "agent", "exit", "done"}
PastHeadless == pc \in {"clean", "validate", "agent", "exit", "done"}
PastClean == pc \in {"validate", "agent", "exit", "done"}
Ended == pc \in {"exit", "done"}
NeitherProvides(item) == cli[item] = None /\ fileConfig.agent[item] = None
AgentFields == {"prompt", "url", "language", "framework"}

\* C1: the agent is invoked only with agent.prompt and agent.url both non-null
\* after the merge; when neither the CLI nor the file gives prompt, or neither
\* gives url, start() ends by typer.Exit and the agent is never invoked.
C1_AgentOnlyWithRequired ==
    /\ AgentInvoked => (Merged /\ config.agent.prompt # None /\ config.agent.url # None)
    /\ (NeitherProvides("prompt") \/ NeitherProvides("url")) =>
           (~AgentInvoked /\ pc # "agent" /\ pc # "done")
    /\ (Ended /\ (NeitherProvides("prompt") \/ NeitherProvides("url"))) =>
           (pc = "exit" /\ errItem \in {"url", "prompt"})

C1_Witness ==
    /\ pc = "exit"
    /\ NeitherProvides("prompt")
    /\ cli.url # None
    /\ errItem = "prompt"
    /\ ~AgentInvoked

\* C2: for prompt, url, language and framework, when the CLI supplies a value
\* (a non-null prompt or url, a non-empty language or framework) and the file
\* supplies one too, the merged configuration holds the CLI value; with file
\* url "http://example.com", file prompt "" and only --prompt
\* "check login flow" passed, the merged prompt is
\* "check login flow" and the merged url is "http://example.com".
Scenario7 ==
    /\ fileConfig.agent.url = Str("http://example.com")
    /\ fileConfig.agent.prompt = Str("")
    /\ cli.prompt = Str("check login flow")
    /\ cli.url = None

CliSupplies(f) ==
    IF f \in {"prompt", "url"} THEN cli[f] # None ELSE Truthy(cli[f])

C2_CliTakesPrecedence ==
    Merged =>
        /\ \A f \in AgentFields :
               (CliSupplies(f) /\ fileConfig.agent[f] # None) => config.agent[f] = cli[f]
        /\ Scenario7 =>
               /\ config.agent.prompt = Str("check login flow")
               /\ config.agent.url = Str("http://example.com")

C2_Witness ==
    /\ pc = "done"
    /\ Scenario7
    /\ cli.language = Str("typescript")
    /\ fileConfig.agent.language = Str("javascript")
    /\ config.agent.language = Str("typescript")
    /\ calls[Len(calls)] = AgentCall(Str("check login flow"), Str("http://example.com"))

\* C3: a file value is overridden only by an explicit, non-default CLI value;
\* when the CLI value is the default (language "python", framework
\* "playwright", prompt/url not passed) the file value is kept.
CliDefault(f) ==
    CASE f = "language" -> DefaultLanguage
      [] f = "framework" -> DefaultFramework
      [] OTHER -> None

C3_DefaultKeepsFileValue ==
    Merged =>
        \A f \in AgentFields :
            /\ cli[f] = CliDefault(f) => config.agent[f] = fileConfig.agent[f]
            /\ config.agent[f] # fileConfig.agent[f] => cli[f] # CliDefault(f)

\* C4: clean, debug and headless override the file only when true: a file
\* setting that is on stays on whatever the CLI passes, and its side effect
\* (the cleanup command, HEADLESS="true", LOG_LEVEL="DEBUG") is applied.
C4_FlagsOnlyTurnOn ==
    /\ Merged =>
           /\ ~Truthy(cli.clean) => config.config.clean = fileConfig.config.clean
           /\ ~Truthy(cli.headless) => config.config.headless = fileConfig.config.headless
           /\ ~Truthy(cli.debug) => config.config.log_level = fileConfig.config.log_level
    /\ (PastLogLevel /\ IsText(fileConfig.config.log_level, "debug")) =>
           (environ.LOG_LEVEL = "DEBUG" /\ loggerLevel = "DEBUG")
    /\ (PastHeadless /\ IsText(fileConfig.config.headless, "true")) =>
           environ.HEADLESS = "true"
    /\ (PastClean /\ IsText(fileConfig.config.clean, "true")) =>
           (calls # << >> /\ calls[1] = ShellCall(RmCommand))

C4_Witness ==
    /\ Ended
    /\ cli.clean = False /\ cli.headless = False /\ cli.debug = False
    /\ IsText(fileConfig.config.clean, "true")
    /\ IsText(fileConfig.config.headless, "true")
    /\ IsText(fileConfig.config.log_level, "debug")
    /\ calls[1] = ShellCall(RmCommand)
    /\ environ = [LOG_LEVEL |-> "DEBUG", HEADLESS |-> "true"]

\* C5 as stated: when agent.prompt or agent.url is null after the merge, no
\* external call at all (shell command or agent) is made on that run.
RequiredMissing == config.agent.prompt = None \/ config.agent.url = None

C5_NoExternalCallWhenMissing ==
    (Merged /\ RequiredMissing) => calls = << >>

\* C5 (amended): when agent.prompt or agent.url is null after the merge, the
\* run ends by typer.Exit with the message naming the first missing item and
\* the agent is never invoked; the only external call made is the cleanup
\* shell command, which has run before the validation exactly when clean
\* resolved to true.
C5_OnlyCleanupBeforeExit ==
    (Merged /\ RequiredMissing) =>
        /\ ~AgentInvoked
        /\ pc # "agent" /\ pc # "done"
        /\ pc = "exit" => errItem = (IF config.agent.url = None THEN "url" ELSE "prompt")
        /\ PastClean =>
               calls = (IF IsText(config.config.clean, "true")
                        THEN <<ShellCall(RmCommand)>> ELSE << >>)

C5_Witness ==
    /\ pc = "exit"
    /\ RequiredMissing
    /\ errItem = "url"
    /\ calls = <<ShellCall(RmCommand)>>

(***************************************************************************)
(* Properties of scaffold_playwright() and scaffold_cypress()              *)
(***************************************************************************)
\* the positions at which a file is written or a package-manager command run
UsePositions == {"pw_init", "pw_uuid", "cy_package", "cy_gitignore", "cy_config_ts",
                 "cy_tsconfig", "cy_config_js", "cy_install"}
IsNpmStep(e) == e.op \in {"npm init playwright", "npm install uuid --save-dev", "npm install"}
Used == \E i \in 1..Len(events) : events[i].op = "write" \/ IsNpmStep(events[i])
Scaffolding == sc.fn \in ScaffoldFns

C7_PythonOnlyCreatesDir ==
    (Scaffolding /\ sc.language = "python") =>
        /\ written = {}
        /\ fresh = {}
        /\ \A i \in 1..Len(events) : events[i].op \in {"rmtree", "mkdir"}
        /\ pc \in {"sc_clean", "sc_mkdir", "sc_language", "sc_done", "sc_raised"}

C7_Witness ==
    /\ sc.language = "python"
    /\ sc.fn = "scaffold_cypress"
    /\ pc = "sc_done"
    /\ events = <<Step("rmtree", "test_dir"), Step("mkdir", "test_dir")>>
    /\ testDir = "dir"

\* C8: scaffold_cypress with clean = true writes exactly package.json,
\* .gitignore, cypress.config.ts and tsconfig.json for "typescript", and
\* exactly package.json, .gitignore and cypress.config.js for "javascript".
CypressFilesFor(language) ==
    IF language = "typescript"
    THEN {"package.json", ".gitignore", "cypress.config.ts", "tsconfig.json"}
    ELSE {"package.json", ".gitignore", "cypress.config.js"}

InstallReached == \E i \in 1..Len(events) : events[i].op = "npm install"

C8_CypressWritesExactlyTheFiles ==
    (sc.fn = "scaffold_cypress" /\ sc.clean /\ sc.language \in {"typescript", "javascript"}) =>
        /\ written \subseteq CypressFilesFor(sc.language)
        /\ (pc = "sc_done" \/ InstallReached) => written = CypressFilesFor(sc.language)
        /\ \A i \in 1..Len(events) :
               events[i].op = "write" => events[i].arg \in CypressFilesFor(sc.language)

C8_Witness ==
    /\ sc.fn = "scaffold_cypress"
    /\ sc.clean
    /\ sc.language = "javascript"
    /\ pc = "sc_done"
    /\ written = {"package.json", ".gitignore", "cypress.config.js"}

\* C10: for a non-python language the steps occur in this order, one after
\* the other: the deletion (when clean), the creation of the directory, every
\* template file write (Cypress) or the initialization command (Playwright),
\* then the install command; the install command never runs before the
\* directory exists nor, for Cypress, before package.json is written.
ExpectedSteps ==
    (IF sc.clean THEN <<Step("rmtree", "test_dir")>> ELSE << >>)
    \o <<Step("mkdir", "test_dir")>>
    \o (IF sc.fn = "scaffold_playwright"
        THEN <<Step("npm init playwright",
                    IF sc.language = "typescript" THEN "Typescript" ELSE "js"),
               Step("npm install uuid --save-dev", "")>>
        ELSE <<Step("write", "package.json"), Step("write", ".gitignore")>>
             \o (IF sc.language = "typescript"
                 THEN <<Step("write", "cypress.config.ts"), Step("write", "tsconfig.json")>>
                 ELSE << >>)
             \o (IF sc.language = "javascript"
                 THEN <<Step("write", "cypress.config.js")>>
                 ELSE << >>)
             \o <<Step("npm install", "")>>)

IsPrefix(a, b) == Len(a) <= Len(b) /\ SubSeq(b, 1, Len(a)) = a

InstallRan ==
    \E i \in 1..Len(events) :
        events[i].op \in {"npm install", "npm install uuid --save-dev"}

C10_StepsInOrder ==
    (Scaffolding /\ sc.language # "python") =>
        /\ IsPrefix(events, ExpectedSteps)
        /\ pc = "sc_done" => events = ExpectedSteps
        /\ InstallRan =>
               /\ testDir = "dir"
               /\ sc.fn = "scaffold_cypress" => "package.json" \in written

C10_Witness ==
    /\ sc.fn = "scaffold_cypress"
    /\ sc.language = "typescript"
    /\ sc.clean
    /\ pc = "sc_done"
    /\ Len(events) = 7
    /\ events[7] = Step("npm install", "")
    /\ events[3] = Step("write", "package.json")

(***************************************************************************)
(* Properties of the check_for_* functions                                 *)
(***************************************************************************)
Probed == pc = "probe_done"
SoftProbes == {"check_for_npm", "check_for_playwright", "check_for_cypress"}
NoOuterSpace(str) ==
    str = << >> \/ (Head(str) \notin Whitespace /\ str[Len(str)] \notin Whitespace)

====
